---- MODULE Spec2Model ----
(***************************************************************************)
(* A model of the CAFFEE editor (src/caffee.py): the tabs with their text  *)
(* buffer, cursor, selection mark and snapshot history, the clipboard, the *)
(* pane that has the focus, and the main loop that routes one key event    *)
(* per step to the handler of the focused pane.                            *)
(*                                                                         *)
(* Positions are 0-based as in the Python code; TLA+ sequences are 1-based,*)
(* so line y of a buffer is lines[y + 1].  A line is a sequence of         *)
(* one-character strings.  Python lists are mutable objects: the field     *)
(* alias of a tab records which history entry (1-based, 0 = none) shares   *)
(* its list object with the buffer, so that an in-place change of the      *)
(* buffer is also a change of that entry.                                  *)
(*                                                                         *)
(* Around the tabs: the files the editor has written (disk), the embedded  *)
(* terminal with its pty and its child shell (terminal), and the blocking  *)
(* read of a prompt the main loop may be waiting in (prompt).              *)
(***************************************************************************)
EXTENDS Integers, Sequences, FiniteSets, TLC

VARIABLES
    tabs,            \* Editor.tabs: sequence of EditorTab records
    active_tab_idx,  \* Editor.active_tab_idx (0-based)
    clipboard,       \* Editor.clipboard: sequence of lines
    active_pane,     \* Editor.active_pane
    show_explorer,   \* Editor.show_explorer
    show_terminal,   \* Editor.show_terminal
    loop,            \* main_loop: "running", "exited" (returned), "crashed" (exception)
    key,             \* the key event the main loop handled last
    steps,           \* number of key events the run still has to handle
    disk,            \* the text of each file as save_file wrote it
    terminal,        \* Editor.terminal: the Terminal object, its pty and child
    prompt,          \* where inside a handler the main loop is, if anywhere: the
                     \* blocking read of a prompt, or a step of save_file
    tick             \* parity of the number of iterations main_loop has begun

vars == <<tabs, active_tab_idx, clipboard, active_pane, show_explorer,
          show_terminal, loop, key, steps, disk, terminal, prompt, tick>>

(***************************************************************************)
(* Bounds of the model and configuration values.                           *)
(***************************************************************************)
MaxSteps == 3
MaxHistorySteps == 10
MaxLines == 3
MaxLen == 3
MaxTabs == 2
HistoryLimit == 2
TabWidth == 1
ScreenHeight == 13
ScreenWidth == 28
TerminalHeight == 10
ExplorerWidth == 35
MaxFileSteps == 5
MaxTerminalSteps == 4
MaxPromptSteps == 3
MaxSearchSteps == 4
MaxSaveSteps == 4
MaxScrollSteps == 4
MaxWideSteps == 4
MaxWideLen == 8
MaxRecordSteps == 3
MaxOutput == 3
BufferLimit == 3
ReadSize == 3

NL == "\n"
InputChars == {"a"}
NoFile == ""
FileNames == {"f"}
None == <<>>

Max(a, b) == IF a > b THEN a ELSE b
Min(a, b) == IF a < b THEN a ELSE b

(***************************************************************************)
(* Python sequence operations.                                             *)
(***************************************************************************)
PyIndex(i, n) == IF i < 0 THEN Max(0, n + i) ELSE Min(i, n)
PySlice(s, a, b) == SubSeq(s, PyIndex(a, Len(s)) + 1, PyIndex(b, Len(s)))
PyTo(s, b) == SubSeq(s, 1, PyIndex(b, Len(s)))
PyFrom(s, a) == SubSeq(s, PyIndex(a, Len(s)) + 1, Len(s))
ListInsert(s, i, v) == PyTo(s, i) \o <<v>> \o PyFrom(s, i)
ListDel(s, i) == SubSeq(s, 1, i) \o SubSeq(s, i + 2, Len(s))
ListDelSlice(s, a, b) ==
    IF PyIndex(a, Len(s)) < PyIndex(b, Len(s))
    THEN PyTo(s, a) \o PyFrom(s, b)
    ELSE s
ListSet(s, i, v) == [s EXCEPT ![i + 1] = v]

(***************************************************************************)
(* Characters and their display width.  A character is a one-character     *)
(* string; the characters outside ASCII are written by their code point.   *)
(***************************************************************************)
HIRAGANA_A == "U+3042"
FULLWIDTH_A == "U+FF21"
E_ACUTE == "U+00E9"

\* unicodedata.east_asian_width(char)
EastAsianWidth(char) ==
    CASE char = HIRAGANA_A  -> "W"
      [] char = FULLWIDTH_A -> "F"
      [] char = E_ACUTE     -> "A"
      [] OTHER              -> "Na"

GetCharWidth(char) == IF EastAsianWidth(char) \in {"F", "W", "A"} THEN 2 ELSE 1

\* The lines of the files with characters of every width, one of them a
\* line of wide characters that is wider than the edit area.
WideFileContents ==
    { << [i \in 1..MaxWideLen |-> HIRAGANA_A] >>,
      << <<HIRAGANA_A, "a", "a", "a">>, <<E_ACUTE, "a", FULLWIDTH_A>> >> }

\* The buffers the model follows: lines up to MaxLen characters, and the
\* lines of a file as they were loaded.
Fits(lines) ==
    /\ Len(lines) <= MaxLines
    /\ \A i \in 1..Len(lines) :
          \/ Len(lines[i]) <= MaxLen
          \/ \E c \in WideFileContents : \E j \in 1..Len(c) : lines[i] = c[j]

(***************************************************************************)
(* Buffer and EditorTab.                                                   *)
(***************************************************************************)
Buffer(lines) == IF lines # <<>> THEN lines ELSE << <<>> >>

EditorTab(lines, filename) ==
    [ lines |-> lines, alias |-> 0, filename |-> filename,
      cursor_y |-> 0, cursor_x |-> 0, scroll_offset |-> 0, col_offset |-> 0,
      desired_x |-> 0, history |-> <<>>, history_index |-> -1,
      modified |-> FALSE, mark_pos |-> None ]

\* An in-place change of the list buffer.lines: the history entry that
\* shares the list (apply_history installs it without a copy) changes too.
WriteLines(t, nl) ==
    [t EXCEPT !.lines = nl,
              !.history = IF t.alias > 0
                          THEN [@ EXCEPT ![t.alias].content = nl]
                          ELSE @]

\* buffer.lines is bound to a new list object.
RebindLines(t, nl) == [t EXCEPT !.lines = nl, !.alias = 0]

(***************************************************************************)
(* Layout: get_edit_rect, get_edit_height.                                 *)
(***************************************************************************)
\* draw_ui: the width of each shortcut of the menu ("^X CloseTab  ", ...), and
\* the number of menu lines they fill; the main loop draws before every key.
ShortcutWidths == <<13, 14, 12, 9, 8, 10, 11, 9, 9, 8, 9, 12, 12, 13, 13, 12>>

RECURSIVE MenuLines(_, _, _)
MenuLines(i, line_width, n) ==
    IF i > Len(ShortcutWidths) THEN (IF line_width > 0 THEN n + 1 ELSE n)
    ELSE IF line_width + ShortcutWidths[i] > ScreenWidth
         THEN MenuLines(i + 1, ShortcutWidths[i], n + 1)
         ELSE MenuLines(i + 1, line_width + ShortcutWidths[i], n)

MenuHeight == MenuLines(1, 0, 0)

EditRectH ==
    LET h == ScreenHeight - 3 - MenuHeight
    IN IF show_terminal THEN h - Min(TerminalHeight, h - 5) ELSE h

EditRectW ==
    IF show_explorer
    THEN ScreenWidth - Min(ExplorerWidth, ScreenWidth - 20)
    ELSE ScreenWidth

EditHeight == Max(1, EditRectH)

Digits(n) == IF n < 10 THEN 1 ELSE 2

(***************************************************************************)
(* move_cursor                                                             *)
(***************************************************************************)
ClampY(y, n) == Max(0, Min(y, n - 1))
ClampX(x, line_len) == Max(0, Min(x, line_len))

MoveCursor(t, y, x, update_desired_x) ==
    LET new_y == ClampY(y, Len(t.lines))
        line_len == Len(t.lines[new_y + 1])
        new_x == ClampX(x, line_len)
        edit_height == EditHeight
        so == IF new_y < t.scroll_offset THEN new_y
              ELSE IF new_y >= t.scroll_offset + edit_height
                   THEN new_y - edit_height + 1
                   ELSE t.scroll_offset
        linenum_width == Max(4, Digits(Len(t.lines))) + 1
        actual_edit_w == EditRectW - linenum_width
        co == IF new_x < t.col_offset THEN new_x
              ELSE IF new_x >= t.col_offset + actual_edit_w
                   THEN new_x - actual_edit_w + 1
                   ELSE t.col_offset
    IN [t EXCEPT !.cursor_y = new_y, !.cursor_x = new_x,
                 !.desired_x = IF update_desired_x THEN new_x ELSE @,
                 !.scroll_offset = so, !.col_offset = co]

\* The main loop places the cursor: screen_x, counted from the first text
\* column, is the sum of get_char_width over line[col_offset:cursor_x].
RECURSIVE SumWidths(_)
SumWidths(segment) ==
    IF segment = <<>> THEN 0
    ELSE GetCharWidth(segment[1]) + SumWidths(Tail(segment))

ScreenX(t) ==
    IF t.cursor_y < Len(t.lines) /\ t.cursor_x >= t.col_offset
    THEN SumWidths(PySlice(t.lines[t.cursor_y + 1], t.col_offset, t.cursor_x))
    ELSE 0

(***************************************************************************)
(* save_history, apply_history, undo, redo                                 *)
(***************************************************************************)
Snapshot(t) == [content |-> t.lines, y |-> t.cursor_y, x |-> t.cursor_x]

\* history.pop(0); history_index -= 1
IndexAfterEvictKept(i) == i
IndexAfterEvict(i) == i - 1

EvictNewest(h) == SubSeq(h, 1, Len(h) - 1)
EvictOldest(h) == Tail(h)

\* self.history = self.history[:self.history_index + 1]
DiscardAfterKept(h, index) == h
DiscardAfter(h, index) == PyTo(h, index + 1)

SaveHistory(t, init) ==
    LET snapshot == Snapshot(t)
        trunc == t.history_index < Len(t.history) - 1
        h1 == IF trunc THEN DiscardAfter(t.history, t.history_index) ELSE t.history
        a1 == IF t.alias > Len(h1) THEN 0 ELSE t.alias
    IN IF ~init /\ h1 # <<>> /\ h1[Len(h1)].content = snapshot.content
       THEN [t EXCEPT !.history = h1, !.alias = a1]
       ELSE LET h2 == Append(h1, snapshot)
                over == Len(h2) > HistoryLimit
            IN [t EXCEPT
                 !.history = IF over THEN EvictOldest(h2) ELSE h2,
                 !.history_index = IF over THEN IndexAfterEvict(Len(h2) - 1)
                                   ELSE Len(h2) - 1,
                 !.alias = IF over THEN Max(0, a1 - 1) ELSE a1,
                 !.modified = IF init THEN @ ELSE TRUE]

\* apply_history raises IndexError in move_cursor when the snapshot it
\* installs holds no line.
ApplyHistoryRaises(t, index) ==
    /\ 0 <= index /\ index < Len(t.history)
    /\ t.history[index + 1].content = <<>>

ApplyHistory(t, index) ==
    IF 0 <= index /\ index < Len(t.history)
    THEN LET snapshot == t.history[index + 1]
             t1 == [t EXCEPT !.history_index = index,
                             !.lines = snapshot.content,
                             !.alias = index + 1]
         IN IF snapshot.content = <<>>
            THEN t1
            ELSE LET t2 == MoveCursor(t1, snapshot.y, snapshot.x, TRUE)
                 IN [t2 EXCEPT
                       !.scroll_offset = Max(0, t2.cursor_y - (EditHeight \div 2)),
                       !.modified = (index # 0)]
    ELSE t

Undo(t) == IF t.history_index > 0 THEN ApplyHistory(t, t.history_index - 1) ELSE t
UndoRaises(t) == t.history_index > 0 /\ ApplyHistoryRaises(t, t.history_index - 1)

Redo(t) ==
    IF t.history_index < Len(t.history) - 1
    THEN ApplyHistory(t, t.history_index + 1)
    ELSE t
RedoRaises(t) ==
    /\ t.history_index < Len(t.history) - 1
    /\ ApplyHistoryRaises(t, t.history_index + 1)

(***************************************************************************)
(* Selection: get_selection_range                                          *)
(***************************************************************************)
PosGreater(p1, p2) == p1[1] > p2[1] \/ (p1[1] = p2[1] /\ p1[2] > p2[2])

SelectionRangeUnordered(t) ==
    IF t.mark_pos = None THEN None
    ELSE << t.mark_pos, <<t.cursor_y, t.cursor_x>> >>

\* None, or <<start, end>> with start <= end.
SelectionRange(t) ==
    IF t.mark_pos = None THEN None
    ELSE LET p1 == t.mark_pos
             p2 == <<t.cursor_y, t.cursor_x>>
         IN IF PosGreater(p1, p2) THEN <<p2, p1>> ELSE <<p1, p2>>

IsInSelection(t, y, x) ==
    LET sel == SelectionRange(t)
    IN IF sel = None THEN FALSE
       ELSE LET start == sel[1]
                end == sel[2]
            IN IF start[1] = end[1]
               THEN y = start[1] /\ start[2] <= x /\ x < end[2]
               ELSE IF y = start[1] THEN x >= start[2]
               ELSE IF y = end[1] THEN x < end[2]
               ELSE start[1] < y /\ y < end[1]

(***************************************************************************)
(* perform_copy, perform_cut, perform_paste.  Copy and cut yield the tab,  *)
(* the clipboard and whether the method raised (IndexError on a line index *)
(* that is not in the buffer).                                             *)
(***************************************************************************)
Outcome(t, clip, raised) == [tab |-> t, clipboard |-> clip, raised |-> raised]

\* The lines perform_copy has put on the clipboard when it returns or raises.
CopiedLines(lines, start, end) ==
    IF start[1] = end[1]
    THEN << PySlice(lines[start[1] + 1], start[2], end[2]) >>
    ELSE << PyFrom(lines[start[1] + 1], start[2]) >>
         \o SubSeq(lines, start[1] + 2, Min(end[1], Len(lines)))
         \o (IF end[1] < Len(lines)
             THEN << PyTo(lines[end[1] + 1], end[2]) >>
             ELSE <<>>)

PerformCopyKeepsMark(t, clip) ==
    LET sel == SelectionRange(t)
    IN IF sel = None THEN Outcome(t, clip, FALSE)
       ELSE Outcome(t, CopiedLines(t.lines, sel[1], sel[2]),
                    sel[1][1] # sel[2][1] /\ sel[2][1] >= Len(t.lines))

PerformCopy(t, clip) ==
    LET sel == SelectionRange(t)
    IN IF sel = None THEN Outcome(t, clip, FALSE)
       ELSE LET start == sel[1]
                end == sel[2]
                raised == start[1] # end[1] /\ end[1] >= Len(t.lines)
            IN Outcome(IF raised THEN t ELSE [t EXCEPT !.mark_pos = None],
                       CopiedLines(t.lines, start, end), raised)

LinesAfterPop(lines) == IF lines = <<>> THEN << <<>> >> ELSE lines

CutLine(t1, clip) ==
    LET popped == ListDel(t1.lines, t1.cursor_y)
        t2 == WriteLines(t1, popped)
        t3 == IF popped = <<>> THEN RebindLines(t2, LinesAfterPop(popped)) ELSE t2
        t4 == MoveCursor(t3, t3.cursor_y, 0, FALSE)
    IN Outcome([t4 EXCEPT !.modified = TRUE],
               << t1.lines[t1.cursor_y + 1] >>, FALSE)

CutSelection(t1, clip, sel) ==
    LET c == PerformCopy(t1, clip)
        start == sel[1]
        end == sel[2]
        lines == t1.lines
        nl == IF start[1] = end[1]
              THEN ListSet(lines, start[1],
                       PyTo(lines[start[1] + 1], start[2])
                       \o PyFrom(lines[start[1] + 1], end[2]))
              ELSE ListSet(ListDelSlice(lines, start[1] + 1, end[1] + 1), start[1],
                       PyTo(lines[start[1] + 1], start[2])
                       \o PyFrom(lines[end[1] + 1], end[2]))
    IN IF c.raised THEN c
       ELSE LET t2 == WriteLines(c.tab, nl)
                t3 == MoveCursor(t2, start[1], start[2], FALSE)
            IN Outcome([t3 EXCEPT !.mark_pos = None, !.modified = TRUE],
                       c.clipboard, FALSE)

PerformCut(t, clip) ==
    LET t1 == SaveHistory(t, FALSE)
        sel == SelectionRange(t1)
    IN IF sel = None THEN CutLine(t1, clip) ELSE CutSelection(t1, clip, sel)

PerformPaste(t, clip) ==
    IF clip = <<>> THEN t
    ELSE LET t1 == SaveHistory(t, FALSE)
             y == t1.cursor_y
             x == t1.cursor_x
             current_line == t1.lines[y + 1]
             prefix == PyTo(current_line, x)
             suffix == PyFrom(current_line, x)
             n == Len(clip)
         IN IF n = 1
            THEN LET t2 == WriteLines(t1, ListSet(t1.lines, y,
                                          prefix \o clip[1] \o suffix))
                     t3 == MoveCursor(t2, y, x + Len(clip[1]), FALSE)
                 IN [t3 EXCEPT !.modified = TRUE]
            ELSE LET nl == SubSeq(t1.lines, 1, y)
                           \o << prefix \o clip[1] >>
                           \o SubSeq(clip, 2, n - 1)
                           \o << clip[n] \o suffix >>
                           \o SubSeq(t1.lines, y + 2, Len(t1.lines))
                     t2 == WriteLines(t1, nl)
                     t3 == MoveCursor(t2, y + n - 1, Len(clip[n]), FALSE)
                 IN [t3 EXCEPT !.modified = TRUE]

(***************************************************************************)
(* toggle_comment, delete_line                                             *)
(***************************************************************************)
IsSpace(c) == c \in {" ", NL}

\* Length of the match of ^\s* on the line.
RECURSIVE LeadingSpace(_)
LeadingSpace(line) ==
    IF line # <<>> /\ IsSpace(Head(line))
    THEN 1 + LeadingSpace(Tail(line))
    ELSE 0

ToggleComment(t) ==
    LET t1 == SaveHistory(t, FALSE)
        y == t1.cursor_y
        line == t1.lines[y + 1]
        ws == LeadingSpace(line)
    IN IF ws < Len(line) /\ line[ws + 1] = "#"
       THEN LET t2 == WriteLines(t1, ListSet(t1.lines, y,
                                     PyTo(line, ws) \o PyFrom(line, ws + 1)))
                cx == IF t2.cursor_x > ws THEN t2.cursor_x - 1 ELSE t2.cursor_x
            IN [t2 EXCEPT !.cursor_x = cx, !.modified = TRUE, !.desired_x = cx]
       ELSE LET t2 == WriteLines(t1, ListSet(t1.lines, y,
                                     PyTo(line, ws) \o <<"#">> \o PyFrom(line, ws)))
                cx == IF t2.cursor_x >= ws THEN t2.cursor_x + 1 ELSE t2.cursor_x
            IN [t2 EXCEPT !.cursor_x = cx, !.modified = TRUE, !.desired_x = cx]

DeleteLine(t) ==
    LET t1 == SaveHistory(t, FALSE)
    IN IF Len(t1.lines) > 1
       THEN LET t2 == WriteLines(t1, ListDel(t1.lines, t1.cursor_y))
                t3 == MoveCursor(t2, t2.cursor_y, 0, FALSE)
            IN [t3 EXCEPT !.modified = TRUE]
       ELSE IF Len(t1.lines[1]) > 0
            THEN LET t2 == WriteLines(t1, ListSet(t1.lines, 0, <<>>))
                     t3 == MoveCursor(t2, 0, 0, FALSE)
                 IN [t3 EXCEPT !.modified = TRUE]
            ELSE [t1 EXCEPT !.modified = TRUE]

(***************************************************************************)
(* main_loop: Backspace, Enter, Tab, character input                       *)
(***************************************************************************)
Backspace(t, clip) ==
    IF t.mark_pos # None THEN PerformCut(t, clip)
    ELSE IF t.cursor_x > 0
    THEN LET t1 == SaveHistory(t, FALSE)
             line == t1.lines[t1.cursor_y + 1]
             t2 == WriteLines(t1, ListSet(t1.lines, t1.cursor_y,
                       PyTo(line, t1.cursor_x - 1) \o PyFrom(line, t1.cursor_x)))
             t3 == MoveCursor(t2, t2.cursor_y, t2.cursor_x - 1, TRUE)
         IN Outcome([t3 EXCEPT !.modified = TRUE], clip, FALSE)
    ELSE IF t.cursor_y > 0
    THEN LET t1 == SaveHistory(t, FALSE)
             y == t1.cursor_y
             prev_len == Len(t1.lines[y])
             joined == ListDel(ListSet(t1.lines, y - 1,
                                       t1.lines[y] \o t1.lines[y + 1]), y)
             t2 == WriteLines(t1, joined)
             t3 == MoveCursor(t2, y - 1, prev_len, TRUE)
         IN Outcome([t3 EXCEPT !.modified = TRUE], clip, FALSE)
    ELSE Outcome(t, clip, FALSE)

Enter(t) ==
    LET t1 == SaveHistory(t, FALSE)
        y == t1.cursor_y
        line == t1.lines[y + 1]
        indent == PyTo(line, LeadingSpace(line))
        nl == ListSet(ListInsert(t1.lines, y + 1, indent \o PyFrom(line, t1.cursor_x)),
                      y, PyTo(line, t1.cursor_x))
        t2 == WriteLines(t1, nl)
        t3 == MoveCursor(t2, y + 1, Len(indent), TRUE)
    IN [t3 EXCEPT !.modified = TRUE]

TabSpaces == [i \in 1..TabWidth |-> " "]

InsertTab(t) ==
    LET t1 == SaveHistory(t, FALSE)
        line == t1.lines[t1.cursor_y + 1]
        t2 == WriteLines(t1, ListSet(t1.lines, t1.cursor_y,
                  PyTo(line, t1.cursor_x) \o TabSpaces \o PyFrom(line, t1.cursor_x)))
        t3 == MoveCursor(t2, t2.cursor_y, t2.cursor_x + Len(TabSpaces), TRUE)
    IN [t3 EXCEPT !.modified = TRUE]

InsertChar(t, c) ==
    LET t1 == SaveHistory(t, FALSE)
        line == t1.lines[t1.cursor_y + 1]
        t2 == WriteLines(t1, ListSet(t1.lines, t1.cursor_y,
                  PyTo(line, t1.cursor_x) \o <<c>> \o PyFrom(line, t1.cursor_x)))
        t3 == MoveCursor(t2, t2.cursor_y, t2.cursor_x + 1, TRUE)
    IN [t3 EXCEPT !.modified = TRUE]

(***************************************************************************)
(* select_all, goto_line, search_text                                      *)
(***************************************************************************)
SelectAll(t) ==
    IF t.mark_pos # None THEN [t EXCEPT !.mark_pos = None]
    ELSE LET last_y == Len(t.lines) - 1
             last_x == Len(t.lines[last_y + 1])
         IN MoveCursor([t EXCEPT !.mark_pos = <<0, 0>>], last_y, last_x, TRUE)

\* n is int(s.strip()); an input that is no number leaves the tab as it is.
GotoLine(t, n) ==
    MoveCursor(t, Max(0, Min(n - 1, Len(t.lines) - 1)), 0, TRUE)

\* pattern.search(line, pos) for a pattern that is one literal character:
\* the 0-based start of the first match at or after pos, or -1.
FindFrom(line, c, pos) ==
    LET hits == { i \in pos..(Len(line) - 1) : line[i + 1] = c }
    IN IF hits = {} THEN -1 ELSE CHOOSE i \in hits : \A j \in hits : i <= j

SetMin(S) == CHOOSE i \in S : \A j \in S : i <= j

\* pattern.search(line, start_x + 1): the column the scan of the cursor line
\* starts at.
SearchFromCursor(start_x) == start_x
SearchFrom(start_x) == start_x + 1

\* re.compile(query) for the queries of the model: "pattern" when it yields a
\* pattern, else the class of the exception it raises.  An open group that
\* is never closed is a re.error; a repeat count of MAXREPEAT or more is an
\* OverflowError, which is no subclass of re.error.
MAXREPEAT == "4294967295"

Compile(query) ==
    IF \E i \in 1..Len(query) :
          query[i] = "(" /\ \A j \in (i + 1)..Len(query) : query[j] # ")"
    THEN "re.error"
    ELSE IF \E i \in 2..(Len(query) - 2) :
               query[i] = "{" /\ query[i + 1] = MAXREPEAT /\ query[i + 2] = "}"
         THEN "OverflowError"
         ELSE "pattern"

\* The position search_text finds, or None.
SearchMatch(t, c) ==
    LET start_y == t.cursor_y
        start_x == t.cursor_x
        n == Len(t.lines)
        first == FindFrom(t.lines[start_y + 1], c, SearchFrom(start_x))
        below == { i \in (start_y + 1)..(n - 1) : FindFrom(t.lines[i + 1], c, 0) >= 0 }
        wrap == { i \in 0..start_y :
                    LET m == FindFrom(t.lines[i + 1], c, 0)
                    IN IF i = start_y THEN m >= 0 /\ m <= start_x ELSE m >= 0 }
    IN IF first >= 0 THEN <<start_y, first>>
       ELSE IF below # {}
            THEN <<SetMin(below), FindFrom(t.lines[SetMin(below) + 1], c, 0)>>
            ELSE IF wrap # {}
                 THEN <<SetMin(wrap), FindFrom(t.lines[SetMin(wrap) + 1], c, 0)>>
                 ELSE None

SearchText(t, c) ==
    LET m == SearchMatch(t, c)
    IN IF m = None THEN t
       ELSE MoveCursor([t EXCEPT !.cursor_y = m[1], !.cursor_x = m[2]],
                       m[1], m[2], TRUE)

(***************************************************************************)
(* save_file.  fn is the answer to the filename prompt, io_ok whether the  *)
(* write of the temporary file and the os.replace succeed.                 *)
(***************************************************************************)
SaveFileUnchecked(t, fn, io_ok) ==
    IF t.filename = NoFile /\ fn = NoFile THEN t
    ELSE SaveHistory([t EXCEPT !.filename = IF @ = NoFile THEN fn ELSE @,
                               !.modified = FALSE], TRUE)

SaveFile(t, fn, io_ok) ==
    IF t.filename = NoFile /\ fn = NoFile THEN t
    ELSE LET t1 == IF t.filename = NoFile THEN [t EXCEPT !.filename = fn] ELSE t
         IN IF io_ok
            THEN SaveHistory([t1 EXCEPT !.modified = FALSE], TRUE)
            ELSE t1

(***************************************************************************)
(* Plugin API: insert_text, delete_range, replace_text, move_cursor_to     *)
(***************************************************************************)
\* text.split('\n')
RECURSIVE SplitNL(_)
SplitNL(text) ==
    IF \A i \in 1..Len(text) : text[i] # NL THEN << text >>
    ELSE LET k == CHOOSE i \in 1..Len(text) :
                     text[i] = NL /\ \A j \in 1..(i - 1) : text[j] # NL
         IN << SubSeq(text, 1, k - 1) >> \o SplitNL(SubSeq(text, k + 1, Len(text)))

InsertText(t, text) ==
    LET t1 == SaveHistory(t, FALSE)
        lines_to_insert == SplitNL(text)
        n == Len(lines_to_insert)
        y == t1.cursor_y
        x == t1.cursor_x
        current_line == t1.lines[y + 1]
        prefix == PyTo(current_line, x)
        suffix == PyFrom(current_line, x)
    IN IF n = 1
       THEN LET t2 == WriteLines(t1, ListSet(t1.lines, y,
                                     prefix \o lines_to_insert[1] \o suffix))
                t3 == MoveCursor(t2, y, x + Len(lines_to_insert[1]), FALSE)
            IN [t3 EXCEPT !.modified = TRUE]
       ELSE LET nl == SubSeq(t1.lines, 1, y)
                      \o << prefix \o lines_to_insert[1] >>
                      \o SubSeq(lines_to_insert, 2, n - 1)
                      \o << lines_to_insert[n] \o suffix >>
                      \o SubSeq(t1.lines, y + 2, Len(t1.lines))
                t2 == WriteLines(t1, nl)
                t3 == MoveCursor(t2, y + n - 1, Len(lines_to_insert[n]), FALSE)
            IN [t3 EXCEPT !.modified = TRUE]

DeleteRange(t, start_pos, end_pos) ==
    LET n == Len(t.lines)
    IN IF ~(0 <= start_pos[1] /\ start_pos[1] < n /\ 0 <= end_pos[1] /\ end_pos[1] < n)
       THEN t
       ELSE LET t1 == SaveHistory(t, FALSE)
            IN IF start_pos[1] = end_pos[1]
               THEN LET y1 == start_pos[1]
                        line == t1.lines[y1 + 1]
                        a == Max(0, Min(start_pos[2], Len(line)))
                        b == Max(0, Min(end_pos[2], Len(line)))
                        x1 == Min(a, b)
                        x2 == Max(a, b)
                        t2 == WriteLines(t1, ListSet(t1.lines, y1,
                                             PyTo(line, x1) \o PyFrom(line, x2)))
                        t3 == MoveCursor(t2, y1, x1, TRUE)
                    IN [t3 EXCEPT !.modified = TRUE]
               ELSE LET swap == start_pos[1] > end_pos[1]
                        y1 == IF swap THEN end_pos[1] ELSE start_pos[1]
                        x1 == IF swap THEN end_pos[2] ELSE start_pos[2]
                        y2 == IF swap THEN start_pos[1] ELSE end_pos[1]
                        x2 == IF swap THEN start_pos[2] ELSE end_pos[2]
                        line_start == PyTo(t1.lines[y1 + 1], x1)
                        line_end == PyFrom(t1.lines[y2 + 1], x2)
                        t2 == WriteLines(t1,
                                  ListSet(ListDelSlice(t1.lines, y1 + 1, y2 + 1),
                                          y1, line_start \o line_end))
                        t3 == MoveCursor(t2, y1, x1, TRUE)
                    IN [t3 EXCEPT !.modified = TRUE]

ReplaceText(t, y, start_x, end_x, new_text) ==
    IF ~(0 <= y /\ y < Len(t.lines)) THEN t
    ELSE LET t1 == SaveHistory(t, FALSE)
             line == t1.lines[y + 1]
             sx == Max(0, Min(start_x, Len(line)))
             ex == Max(0, Min(end_x, Len(line)))
             t2 == WriteLines(t1, ListSet(t1.lines, y,
                       PyTo(line, sx) \o new_text \o PyFrom(line, ex)))
             t3 == MoveCursor(t2, y, sx + Len(new_text), TRUE)
         IN [t3 EXCEPT !.modified = TRUE]

(***************************************************************************)
(* Loading a file into a tab: the start screen (Ctrl-S opens the settings  *)
(* file) and the explorer pane.  new_lines is what load_file returned.     *)
(***************************************************************************)
OpenInTab(t, new_lines, filename) ==
    SaveHistory([RebindLines(t, Buffer(new_lines)) EXCEPT
                    !.filename = filename,
                    !.cursor_y = 0, !.cursor_x = 0, !.col_offset = 0],
                TRUE)

\* What the full-screen explorer assigns to tabs[0] before it calls
\* tabs[0].save_history, a method EditorTab does not have.
OpenInFirstTab(t, new_lines, filename) ==
    [RebindLines(t, Buffer(new_lines)) EXCEPT
        !.filename = filename,
        !.cursor_y = 0, !.cursor_x = 0, !.col_offset = 0]

(***************************************************************************)
(* Files: save_file writes "\n".join(lines), load_file reads the text back *)
(* and splits it with str.splitlines.  A text is a sequence of characters. *)
(***************************************************************************)
\* tmp_name = f"{self.filename}.tmp"
TmpName(filename) == filename \o ".tmp"

\* open(tmp_name, 'w'): the file save_file writes the text to.
WriteInPlace(filename) == filename
WriteTarget(filename) == TmpName(filename)

AllFiles ==
    LET named == FileNames \cup {"setting.json"}
    IN named \cup { TmpName(f) : f \in named }

NoDisk == [f \in AllFiles |-> [written |-> FALSE, text |-> <<>>]]

\* "\n".join(lines)
RECURSIVE FileText(_)
FileText(lines) ==
    IF Len(lines) = 0 THEN <<>>
    ELSE IF Len(lines) = 1 THEN lines[1]
    ELSE lines[1] \o <<NL>> \o FileText(Tail(lines))

\* text.splitlines(): the lines of the text, a line break at the end of the
\* text opening no further line.
RECURSIVE SplitLines(_)
SplitLines(text) ==
    IF text = <<>> THEN <<>>
    ELSE IF \A i \in 1..Len(text) : text[i] # NL THEN << text >>
    ELSE LET k == CHOOSE i \in 1..Len(text) :
                     text[i] = NL /\ \A j \in 1..(i - 1) : text[j] # NL
         IN << SubSeq(text, 1, k - 1) >> \o SplitLines(SubSeq(text, k + 1, Len(text)))

\* load_file on a file that exists and decodes.
LoadFile(text) ==
    LET content == SplitLines(text)
    IN IF content = <<>> THEN << <<>> >> ELSE content

\* The disk after save_file on tab t.
DiskAfterSave(t, fn, io_ok) ==
    LET name == IF t.filename = NoFile THEN fn ELSE t.filename
    IN IF name = NoFile \/ ~io_ok THEN disk
       ELSE [disk EXCEPT ![name] = [written |-> TRUE, text |-> FileText(t.lines)]]

\* The steps of save_file on the disk, one system call at a time.
\* open(tmp_name, 'w') creates the file or cuts it to nothing.
DiskAfterOpen(d, filename) ==
    [d EXCEPT ![WriteTarget(filename)] = [written |-> TRUE, text |-> <<>>]]

\* f.write and the close at the end of the with block: the first n
\* characters of the text have reached the file.
DiskAfterWrite(d, filename, text, n) ==
    [d EXCEPT ![WriteTarget(filename)].text = SubSeq(text, 1, n)]

\* os.replace(tmp_name, filename): the target takes the content of the
\* temporary file in one step, and the temporary name is gone.
DiskAfterReplace(d, filename) ==
    IF WriteTarget(filename) = filename THEN d
    ELSE [d EXCEPT ![filename] = d[WriteTarget(filename)],
                   ![WriteTarget(filename)] = [written |-> FALSE, text |-> <<>>]]

(***************************************************************************)
(* Terminal: the pty master, the child shell, the scrollback.              *)
(* pty_out is the output of the child that no read has fetched yet, pty_in *)
(* what write_input has written to the master; eof records that a read     *)
(* met the end of file (or EIO) the master gives once the child is gone,   *)
(* dropped that a read cut the scrollback to its limit, produced how many  *)
(* times the child has written.                                            *)
(***************************************************************************)
CR == "\r"
ESC == "ESC"
CsiFinal == {"h", "["}

Terminal(has_pty) ==
    [master_fd |-> IF has_pty THEN "fd" ELSE "None",
     child     |-> IF has_pty THEN "running" ELSE "none",
     lines     |-> IF has_pty THEN <<>> ELSE << <<"!">> >>,
     pty_out   |-> <<>>,
     pty_in    |-> <<>>,
     eof       |-> FALSE,
     dropped   |-> FALSE,
     produced  |-> 0]

\* ANSI_ESCAPE.sub('', text), on texts over h, [, ESC, CR and NL: the only
\* escape sequences of such a text are ESC [ h and ESC [ [.
RECURSIVE StripAnsi(_)
StripAnsi(text) ==
    IF Len(text) = 0 THEN text
    ELSE IF Len(text) >= 3 /\ text[1] = ESC /\ text[2] = "[" /\ text[3] \in CsiFinal
         THEN StripAnsi(SubSeq(text, 4, Len(text)))
         ELSE << text[1] >> \o StripAnsi(Tail(text))

\* text.replace('\r\n', '\n')
RECURSIVE ReplaceCRLF(_)
ReplaceCRLF(text) ==
    IF Len(text) = 0 THEN text
    ELSE IF Len(text) >= 2 /\ text[1] = CR /\ text[2] = NL
         THEN << NL >> \o ReplaceCRLF(SubSeq(text, 3, Len(text)))
         ELSE << text[1] >> \o ReplaceCRLF(Tail(text))

\* lines[-buffer_limit:]
KeepOldest(lines, n) == SubSeq(lines, 1, n)
KeepNewest(lines, n) == SubSeq(lines, Len(lines) - n + 1, Len(lines))

\* The scrollback with the lines of a text that was read: the first piece
\* continues the last line.
Scrolled(lines, text) ==
    LET new_lines == SplitNL(ReplaceCRLF(text))
        merged == IF lines # <<>>
                  THEN ListSet(lines, Len(lines) - 1, lines[Len(lines)] \o new_lines[1])
                  ELSE << new_lines[1] >>
    IN merged \o Tail(new_lines)

ReadOutput(term) ==
    IF term.master_fd = "None" THEN term
    ELSE IF term.pty_out # <<>>
    THEN LET data == PyTo(term.pty_out, ReadSize)
             all == Scrolled(term.lines, StripAnsi(data))
         IN [term EXCEPT
               !.lines = IF Len(all) > BufferLimit THEN KeepNewest(all, BufferLimit)
                         ELSE all,
               !.dropped = @ \/ Len(all) > BufferLimit,
               !.pty_out = PyFrom(term.pty_out, ReadSize)]
    ELSE IF term.child = "running" THEN term
    ELSE [term EXCEPT !.eof = TRUE]

\* os.write on the master; ok is whether the system accepts the bytes.
WriteInput(term, data, ok) ==
    IF term.master_fd # "None" /\ ok
    THEN [term EXCEPT !.pty_in = @ \o data]
    ELSE term

\* The poll at the top of a main loop iteration.
Polled == IF show_terminal THEN ReadOutput(terminal) ELSE terminal

(***************************************************************************)
(* Inputs the environment supplies.                                        *)
(***************************************************************************)
\* What load_file returns for a file that exists: its lines.
FileContents == { << <<>> >>, << <<" ", "#">>, <<"b">> >> }
SettingsFile == "setting.json"
\* What load_file returns for file f: what the editor wrote there, else what
\* the file held before.
FileLines(f) == IF disk[f].written THEN { LoadFile(disk[f].text) } ELSE FileContents
\* What the child shell writes at a time, and what a key sends to it.
ChildOutputs == { <<"h">>, <<CR, NL>>, <<NL, "h", NL>>, <<ESC, "[", "h">> }
TerminalInputs == { <<"a">>, <<NL>> }
NoPrompt == "none"
SearchChars == {"a", "#"}
\* Queries re.compile refuses.
InvalidQueries == { <<"(">>, <<"a", "{", MAXREPEAT, "}">> }
GotoInputs == {0, 2, MaxLines + 1}
PluginTexts == { <<"b">>, <<"b", NL>> }
CursorYs == {-1, 1, MaxLines}
CursorXs == {-1, 1, MaxLen + 1}
RangeYs == {0, 1, MaxLines}
RangeXs == {-1, 1}
RangePositions == { <<0, 1>>, <<1, -1>>, <<0, MaxLen + 1>>, <<MaxLines, 0>> }

(***************************************************************************)
(* The focused tab and the frame of a key handler.                         *)
(***************************************************************************)
cur == tabs[active_tab_idx + 1]

CanHandle(pane) ==
    /\ loop = "running"
    /\ prompt = NoPrompt
    /\ steps > 0
    /\ active_pane = pane

AnyPane ==
    /\ loop = "running"
    /\ prompt = NoPrompt
    /\ steps > 0

\* The handler of key k leaves the focused tab as t2; when it raised, the
\* exception ends main_loop.
Handled(k, t2, raised) ==
    /\ Fits(t2.lines)
    /\ tabs' = [tabs EXCEPT ![active_tab_idx + 1] = t2]
    /\ key' = k
    /\ steps' = steps - 1
    /\ loop' = IF raised THEN "crashed" ELSE loop
    /\ terminal' = Polled
    /\ tick' = 1 - tick
    /\ UNCHANGED prompt

\* A plugin key binding runs inside try/except: what it raises is reported
\* as a status message.
HandledPlugin(k, t2) ==
    /\ Fits(t2.lines)
    /\ tabs' = [tabs EXCEPT ![active_tab_idx + 1] = t2]
    /\ key' = k
    /\ steps' = steps - 1
    /\ terminal' = Polled
    /\ tick' = 1 - tick
    /\ UNCHANGED <<loop, prompt>>

\* A key event was read: this iteration of the loop handles key k.
TickKey(k) ==
    /\ key' = k
    /\ steps' = steps - 1
    /\ tick' = 1 - tick
    /\ UNCHANGED prompt

Tick(k) ==
    /\ TickKey(k)
    /\ terminal' = Polled

paneVars == <<active_pane, show_explorer, show_terminal>>

(***************************************************************************)
(* Editor pane: editing keys                                               *)
(***************************************************************************)
KeyChar ==
    /\ CanHandle("editor")
    /\ \E c \in InputChars : Handled("char", InsertChar(cur, c), FALSE)
    /\ UNCHANGED <<disk, active_tab_idx, clipboard, paneVars>>

KeyTab ==
    /\ CanHandle("editor")
    /\ Handled("tab", InsertTab(cur), FALSE)
    /\ UNCHANGED <<disk, active_tab_idx, clipboard, paneVars>>

KeyEnter ==
    /\ CanHandle("editor")
    /\ Handled("enter", Enter(cur), FALSE)
    /\ UNCHANGED <<disk, active_tab_idx, clipboard, paneVars>>

KeyBackspace ==
    /\ CanHandle("editor")
    /\ LET o == Backspace(cur, clipboard)
       IN /\ Handled("backspace", o.tab, o.raised)
          /\ clipboard' = o.clipboard
    /\ UNCHANGED <<disk, active_tab_idx, paneVars>>

KeyCopy ==
    /\ CanHandle("editor")
    /\ LET o == PerformCopy(cur, clipboard)
       IN /\ Handled("copy", o.tab, o.raised)
          /\ clipboard' = o.clipboard
    /\ UNCHANGED <<disk, active_tab_idx, paneVars>>

KeyCut ==
    /\ CanHandle("editor")
    /\ LET o == PerformCut(cur, clipboard)
       IN /\ Handled("cut", o.tab, o.raised)
          /\ clipboard' = o.clipboard
    /\ UNCHANGED <<disk, active_tab_idx, paneVars>>

KeyPaste ==
    /\ CanHandle("editor")
    /\ Handled("paste", PerformPaste(cur, clipboard), FALSE)
    /\ UNCHANGED <<disk, active_tab_idx, clipboard, paneVars>>

KeyDeleteLine ==
    /\ CanHandle("editor")
    /\ Handled("delete_line", DeleteLine(cur), FALSE)
    /\ UNCHANGED <<disk, active_tab_idx, clipboard, paneVars>>

KeyToggleComment ==
    /\ CanHandle("editor")
    /\ Handled("toggle_comment", ToggleComment(cur), FALSE)
    /\ UNCHANGED <<disk, active_tab_idx, clipboard, paneVars>>

KeyUndo ==
    /\ CanHandle("editor")
    /\ Handled("undo", Undo(cur), UndoRaises(cur))
    /\ UNCHANGED <<disk, active_tab_idx, clipboard, paneVars>>

KeyRedo ==
    /\ CanHandle("editor")
    /\ Handled("redo", Redo(cur), RedoRaises(cur))
    /\ UNCHANGED <<disk, active_tab_idx, clipboard, paneVars>>

KeySave ==
    /\ CanHandle("editor")
    /\ \E fn \in FileNames \cup {NoFile}, io_ok \in BOOLEAN :
         /\ Handled("save", SaveFile(cur, fn, io_ok), FALSE)
         /\ disk' = DiskAfterSave(cur, fn, io_ok)
    /\ UNCHANGED <<active_tab_idx, clipboard, paneVars>>

(***************************************************************************)
(* Editor pane: mark, cursor keys, goto, search                            *)
(***************************************************************************)
ToggleMark(t) ==
    IF t.mark_pos # None THEN [t EXCEPT !.mark_pos = None]
    ELSE [t EXCEPT !.mark_pos = <<t.cursor_y, t.cursor_x>>]

KeyMark ==
    /\ CanHandle("editor")
    /\ Handled("mark", ToggleMark(cur), FALSE)
    /\ UNCHANGED <<disk, active_tab_idx, clipboard, paneVars>>

KeySelectAll ==
    /\ CanHandle("editor")
    /\ Handled("select_all", SelectAll(cur), FALSE)
    /\ UNCHANGED <<disk, active_tab_idx, clipboard, paneVars>>

ArrowFromCursorX(t, k) ==
    CASE k = "up"    -> MoveCursor(t, t.cursor_y - 1, t.cursor_x, TRUE)
      [] k = "down"  -> MoveCursor(t, t.cursor_y + 1, t.cursor_x, TRUE)
      [] k = "left"  -> MoveCursor(t, t.cursor_y, t.cursor_x - 1, TRUE)
      [] k = "right" -> MoveCursor(t, t.cursor_y, t.cursor_x + 1, TRUE)
      [] k = "ppage" -> MoveCursor(t, t.cursor_y - EditHeight, t.cursor_x, TRUE)
      [] k = "npage" -> MoveCursor(t, t.cursor_y + EditHeight, t.cursor_x, TRUE)
      [] k = "end"   -> MoveCursor(t, t.cursor_y, Len(t.lines[t.cursor_y + 1]), TRUE)

Arrow(t, k) ==
    CASE k = "up"    -> MoveCursor(t, t.cursor_y - 1, t.desired_x, FALSE)
      [] k = "down"  -> MoveCursor(t, t.cursor_y + 1, t.desired_x, FALSE)
      [] k = "left"  -> MoveCursor(t, t.cursor_y, t.cursor_x - 1, TRUE)
      [] k = "right" -> MoveCursor(t, t.cursor_y, t.cursor_x + 1, TRUE)
      [] k = "ppage" -> MoveCursor(t, t.cursor_y - EditHeight, t.cursor_x, TRUE)
      [] k = "npage" -> MoveCursor(t, t.cursor_y + EditHeight, t.cursor_x, TRUE)
      [] k = "end"   -> MoveCursor(t, t.cursor_y, Len(t.lines[t.cursor_y + 1]), TRUE)

KeyArrow ==
    /\ CanHandle("editor")
    /\ \E k \in {"up", "down", "left", "right", "ppage", "npage", "end"} :
         Handled(k, Arrow(cur, k), FALSE)
    /\ UNCHANGED <<disk, active_tab_idx, clipboard, paneVars>>

KeyGoto ==
    /\ CanHandle("editor")
    /\ \/ \E n \in GotoInputs : Handled("goto", GotoLine(cur, n), FALSE)
       \/ Handled("goto_invalid", cur, FALSE)
    /\ UNCHANGED <<disk, active_tab_idx, clipboard, paneVars>>

KeySearch ==
    /\ CanHandle("editor")
    /\ \/ \E c \in SearchChars :
            /\ Compile(<<c>>) = "pattern"
            /\ Handled("search", SearchText(cur, c), FALSE)
       \/ \E query \in InvalidQueries :
            /\ Compile(query) # "pattern"
            /\ Handled("search_invalid", cur, Compile(query) # "re.error")
       \/ Handled("search_aborted", cur, FALSE)
    /\ UNCHANGED <<disk, active_tab_idx, clipboard, paneVars>>

(***************************************************************************)
(* Editor pane: keys bound by a plugin to the plugin API                   *)
(***************************************************************************)
PluginInsertText ==
    /\ CanHandle("editor")
    /\ \E text \in PluginTexts :
         HandledPlugin("insert_text", InsertText(cur, text))
    /\ UNCHANGED <<disk, active_tab_idx, clipboard, paneVars>>

PluginDeleteRange ==
    /\ CanHandle("editor")
    /\ \E start_pos \in RangePositions, end_pos \in RangePositions :
         HandledPlugin("delete_range", DeleteRange(cur, start_pos, end_pos))
    /\ UNCHANGED <<disk, active_tab_idx, clipboard, paneVars>>

PluginReplaceText ==
    /\ CanHandle("editor")
    /\ \E y \in RangeYs, sx \in RangeXs, ex \in RangeXs, text \in PluginTexts :
         HandledPlugin("replace_text", ReplaceText(cur, y, sx, ex, text))
    /\ UNCHANGED <<disk, active_tab_idx, clipboard, paneVars>>

PluginMoveCursorTo ==
    /\ CanHandle("editor")
    /\ \E y \in CursorYs, x \in CursorXs :
         HandledPlugin("move_cursor_to", MoveCursor(cur, y, x, TRUE))
    /\ UNCHANGED <<disk, active_tab_idx, clipboard, paneVars>>

\* What a callback may raise, and `except Exception`: SystemExit (sys.exit),
\* KeyboardInterrupt and GeneratorExit derive from BaseException only.
PluginExceptions == {"ValueError", "KeyboardInterrupt", "SystemExit"}
ExceptionCatches(exc) == exc \notin {"SystemExit", "KeyboardInterrupt", "GeneratorExit"}

\* A bound callback raises before it has changed anything.
PluginRaises ==
    /\ CanHandle("editor")
    /\ \E exc \in PluginExceptions :
         Handled("plugin_raises", cur, ~ExceptionCatches(exc))
    /\ UNCHANGED <<disk, active_tab_idx, clipboard, paneVars>>

(***************************************************************************)
(* Tabs: new_tab with its start screen, next_tab, close_current_tab        *)
(***************************************************************************)
StartChoices == {"settings", "settings_missing", "settings_error",
                 "plugins", "explorer", "other"}

\* run_interactive_start_screen on tab t: the tab it leaves, the pane, and
\* whether it raised (os.path.getmtime of a settings file that is not there).
StartScreen(t, pane, choice, new_lines) ==
    CASE choice = "settings" ->
           [tab |-> OpenInTab(t, new_lines, SettingsFile), pane |-> "editor",
            raised |-> FALSE]
      [] choice = "settings_missing" ->
           [tab |-> [RebindLines(t, Buffer(<<>>)) EXCEPT !.filename = SettingsFile],
            pane |-> pane, raised |-> TRUE]
      [] choice = "plugins" ->
           [tab |-> t, pane |-> "plugin_manager", raised |-> FALSE]
      [] choice = "explorer" ->
           [tab |-> t, pane |-> "full_screen_explorer", raised |-> FALSE]
      [] OTHER -> [tab |-> t, pane |-> pane, raised |-> FALSE]

KeyNewTab ==
    /\ AnyPane
    /\ Len(tabs) < MaxTabs
    /\ \E choice \in StartChoices, new_lines \in FileLines(SettingsFile) :
         LET fresh == SaveHistory(EditorTab(Buffer(<<>>), NoFile), TRUE)
             s == StartScreen(fresh, active_pane, choice, new_lines)
         IN /\ tabs' = Append(tabs, s.tab)
            /\ active_tab_idx' = Len(tabs)
            /\ active_pane' = s.pane
            /\ loop' = IF s.raised THEN "crashed" ELSE loop
    /\ Tick("new_tab")
    /\ UNCHANGED <<disk, clipboard, show_explorer, show_terminal>>

KeyNextTab ==
    /\ AnyPane
    /\ active_tab_idx' = (active_tab_idx + 1) % Len(tabs)
    /\ Tick("next_tab")
    /\ UNCHANGED <<disk, tabs, clipboard, paneVars, loop>>

RemoveTabKeepsIndex(saved) ==
    LET rest == ListDel(saved, active_tab_idx)
    IN /\ tabs' = rest
       /\ loop' = IF rest = <<>> THEN "exited" ELSE loop
       /\ active_tab_idx' = active_tab_idx

RemoveTab(saved) ==
    LET rest == ListDel(saved, active_tab_idx)
    IN /\ tabs' = rest
       /\ loop' = IF rest = <<>> THEN "exited" ELSE loop
       /\ active_tab_idx' = IF rest # <<>> /\ active_tab_idx >= Len(rest)
                            THEN Len(rest) - 1
                            ELSE active_tab_idx

KeyCloseTab ==
    /\ CanHandle("editor")
    /\ \/ /\ ~cur.modified
          /\ RemoveTab(tabs)
          /\ UNCHANGED disk
       \/ /\ cur.modified
          /\ \E fn \in FileNames \cup {NoFile}, io_ok \in BOOLEAN :
               /\ RemoveTab([tabs EXCEPT ![active_tab_idx + 1] = SaveFile(cur, fn, io_ok)])
               /\ disk' = DiskAfterSave(cur, fn, io_ok)
       \/ /\ cur.modified
          /\ RemoveTab(tabs)
          /\ UNCHANGED disk
       \/ /\ cur.modified
          /\ UNCHANGED <<tabs, active_tab_idx, loop, disk>>
    /\ Tick("close_tab")
    /\ UNCHANGED <<clipboard, paneVars>>

(***************************************************************************)
(* Panes: toggle_explorer, toggle_terminal, and the keys of the explorer,  *)
(* full-screen explorer, plugin manager and terminal panes                 *)
(***************************************************************************)
KeyToggleExplorer ==
    /\ AnyPane
    /\ IF show_explorer
       THEN IF active_pane = "explorer"
            THEN show_explorer' = FALSE /\ active_pane' = "editor"
            ELSE active_pane' = "explorer" /\ UNCHANGED show_explorer
       ELSE show_explorer' = TRUE /\ active_pane' = "explorer"
    /\ Tick("toggle_explorer")
    /\ UNCHANGED <<disk, tabs, active_tab_idx, clipboard, show_terminal, loop>>

KeyToggleTerminal ==
    /\ AnyPane
    /\ IF show_terminal
       THEN IF active_pane = "terminal"
            THEN show_terminal' = FALSE /\ active_pane' = "editor"
            ELSE active_pane' = "terminal" /\ UNCHANGED show_terminal
       ELSE show_terminal' = TRUE /\ active_pane' = "terminal"
    /\ Tick("toggle_terminal")
    /\ UNCHANGED <<disk, tabs, active_tab_idx, clipboard, show_explorer, loop>>

\* Enter on a file in the explorer pane; load_file succeeded.
ExplorerOpen ==
    /\ CanHandle("explorer")
    /\ \E f \in FileNames : \E new_lines \in FileLines(f) :
         Handled("explorer_open", OpenInTab(cur, new_lines, f), FALSE)
    /\ active_pane' = "editor"
    /\ UNCHANGED <<disk, active_tab_idx, clipboard, show_explorer, show_terminal>>

\* Enter on a file in the full-screen explorer; load_file succeeded.
FullExplorerOpen ==
    /\ CanHandle("full_screen_explorer")
    /\ \E f \in FileNames : \E new_lines \in FileLines(f) :
         /\ tabs' = [tabs EXCEPT ![1] = OpenInFirstTab(tabs[1], new_lines, f)]
         /\ loop' = "crashed"
    /\ Tick("full_explorer_open")
    /\ UNCHANGED <<disk, active_tab_idx, clipboard, paneVars>>

\* Esc in a pane other than the editor gives the focus back to the editor.
PaneEsc ==
    /\ AnyPane
    /\ active_pane \in {"explorer", "full_screen_explorer", "plugin_manager", "terminal"}
    /\ active_pane' = "editor"
    /\ Tick("esc")
    /\ UNCHANGED <<disk, tabs, active_tab_idx, clipboard, show_explorer, show_terminal, loop>>

\* A key in the terminal pane is sent to the shell.  Once the child is gone
\* the system may refuse the write.
KeyTerminalInput ==
    /\ CanHandle("terminal")
    /\ \E data \in TerminalInputs, ok \in BOOLEAN :
         /\ ok \/ terminal.child # "running"
         /\ terminal' = WriteInput(Polled, data, ok)
    /\ TickKey("terminal_input")
    /\ UNCHANGED <<tabs, active_tab_idx, clipboard, paneVars, loop, disk>>

(***************************************************************************)
(* The main loop without a key: the timed get_wch expires and the loop     *)
(* starts its next iteration.  The child shell writes and exits on its own.*)
(***************************************************************************)
Idle ==
    /\ loop = "running"
    /\ prompt = NoPrompt
    /\ terminal' = Polled
    /\ tick' = 1 - tick
    /\ UNCHANGED <<tabs, active_tab_idx, clipboard, paneVars, loop, key, steps,
                   disk, prompt>>

ChildOutput ==
    /\ terminal.child = "running"
    /\ terminal.produced < MaxOutput
    /\ \E chunk \in ChildOutputs :
         terminal' = [terminal EXCEPT !.pty_out = @ \o chunk, !.produced = @ + 1]
    /\ UNCHANGED <<tabs, active_tab_idx, clipboard, paneVars, loop, key, steps,
                   disk, prompt, tick>>

ChildExit ==
    /\ terminal.child = "running"
    /\ terminal' = [terminal EXCEPT !.child = "zombie"]
    /\ UNCHANGED <<tabs, active_tab_idx, clipboard, paneVars, loop, key, steps,
                   disk, prompt, tick>>

(***************************************************************************)
(* Prompts.  A handler that asks the user something reads the answer with  *)
(* getch or getstr while the timeout of the screen is -1 (main_loop resets *)
(* it after every key): PromptOpen is the handler up to that read,         *)
(* PromptAnswer the rest of it once the user has answered.                 *)
(***************************************************************************)
Prompts == {"close_tab", "filename", "search", "goto", "start_screen"}

PromptOpens(p) ==
    CASE p = "close_tab"    -> active_pane = "editor" /\ cur.modified
      [] p = "filename"     -> active_pane = "editor" /\ cur.filename = NoFile
      [] p = "search"       -> active_pane = "editor"
      [] p = "goto"         -> active_pane = "editor"
      [] p = "start_screen" -> Len(tabs) < MaxTabs

PromptOpen ==
    /\ AnyPane
    /\ \E p \in Prompts :
         /\ PromptOpens(p)
         /\ prompt' = p
         /\ key' = p
         /\ IF p = "start_screen"
            THEN /\ tabs' = Append(tabs, SaveHistory(EditorTab(Buffer(<<>>), NoFile), TRUE))
                 /\ active_tab_idx' = Len(tabs)
            ELSE UNCHANGED <<tabs, active_tab_idx>>
    /\ steps' = steps - 1
    /\ terminal' = Polled
    /\ tick' = 1 - tick
    /\ UNCHANGED <<clipboard, paneVars, loop, disk>>

\* The answer to the filename prompt of save_file, on its own or inside the
\* prompt of close_current_tab.
AnswerFilename(closing) ==
    \E fn \in FileNames \cup {NoFile}, io_ok \in BOOLEAN :
        LET saved == [tabs EXCEPT ![active_tab_idx + 1] = SaveFile(cur, fn, io_ok)]
        IN /\ disk' = DiskAfterSave(cur, fn, io_ok)
           /\ IF closing THEN RemoveTab(saved)
              ELSE tabs' = saved /\ UNCHANGED <<active_tab_idx, loop>>
           /\ prompt' = NoPrompt
           /\ UNCHANGED active_pane

PromptAnswer ==
    /\ loop = "running"
    /\ prompt # NoPrompt
    /\ \/ /\ prompt = "search"
          /\ \/ /\ \E t2 \in {cur} \cup { SearchText(cur, c) : c \in SearchChars } :
                     tabs' = [tabs EXCEPT ![active_tab_idx + 1] = t2]
                /\ UNCHANGED loop
             \/ /\ \E query \in InvalidQueries :
                     loop' = IF Compile(query) = "re.error" THEN loop ELSE "crashed"
                /\ UNCHANGED tabs
          /\ prompt' = NoPrompt
          /\ UNCHANGED <<active_tab_idx, disk, active_pane>>
       \/ /\ prompt = "goto"
          /\ \E t2 \in {cur} \cup { GotoLine(cur, n) : n \in GotoInputs } :
               tabs' = [tabs EXCEPT ![active_tab_idx + 1] = t2]
          /\ prompt' = NoPrompt
          /\ UNCHANGED <<active_tab_idx, loop, disk, active_pane>>
       \/ /\ prompt = "filename"
          /\ AnswerFilename(FALSE)
       \/ /\ prompt = "close_filename"
          /\ AnswerFilename(TRUE)
       \/ /\ prompt = "close_tab"
          /\ \E answer \in {"y", "n", "esc"} :
               CASE answer = "y" /\ cur.filename = NoFile ->
                      /\ prompt' = "close_filename"
                      /\ UNCHANGED <<tabs, active_tab_idx, loop, disk, active_pane>>
                 [] answer = "y" /\ cur.filename # NoFile ->
                      /\ AnswerFilename(TRUE)
                 [] answer = "n" ->
                      /\ RemoveTab(tabs)
                      /\ prompt' = NoPrompt
                      /\ UNCHANGED <<disk, active_pane>>
                 [] OTHER ->
                      /\ prompt' = NoPrompt
                      /\ UNCHANGED <<tabs, active_tab_idx, loop, disk, active_pane>>
       \/ /\ prompt = "start_screen"
          /\ \E choice \in StartChoices, new_lines \in FileLines(SettingsFile) :
               LET st == StartScreen(cur, active_pane, choice, new_lines)
               IN /\ tabs' = [tabs EXCEPT ![active_tab_idx + 1] = st.tab]
                  /\ active_pane' = st.pane
                  /\ loop' = IF st.raised THEN "crashed" ELSE loop
          /\ prompt' = NoPrompt
          /\ UNCHANGED <<active_tab_idx, disk>>
    /\ UNCHANGED <<clipboard, show_explorer, show_terminal, key, steps, terminal,
                   tick>>

(***************************************************************************)
(* save_file one system call at a time: open the temporary file, write the *)
(* text, replace the target.  Each call may raise OSError, which save_file *)
(* reports, and the process may be killed between any two of them.         *)
(***************************************************************************)
SavePositions == {"save_open", "save_write", "save_replace"}

\* Ctrl-O: the filename is settled (the answer to the prompt when the tab
\* has none) and the backup copy is made.
SaveBegin ==
    /\ CanHandle("editor")
    /\ \E fn \in FileNames :
         tabs' = [tabs EXCEPT ![active_tab_idx + 1] = SaveFile(cur, fn, FALSE)]
    /\ prompt' = "save_open"
    /\ key' = "save_begin"
    /\ steps' = steps - 1
    /\ terminal' = Polled
    /\ tick' = 1 - tick
    /\ UNCHANGED <<active_tab_idx, clipboard, paneVars, loop, disk>>

SaveStep ==
    /\ loop = "running"
    /\ LET text == FileText(cur.lines)
           file == WriteTarget(cur.filename)
       IN \/ /\ prompt = "save_open"
             /\ disk' = DiskAfterOpen(disk, cur.filename)
             /\ prompt' = "save_write"
             /\ UNCHANGED <<tabs, key>>
          \/ /\ prompt = "save_write"
             /\ \E n \in (Len(disk[file].text) + 1)..Len(text) :
                  disk' = DiskAfterWrite(disk, cur.filename, text, n)
             /\ UNCHANGED <<tabs, key, prompt>>
          \/ /\ prompt = "save_write"
             /\ disk[file].text = text
             /\ prompt' = "save_replace"
             /\ UNCHANGED <<tabs, key, disk>>
          \/ /\ prompt = "save_replace"
             /\ disk' = DiskAfterReplace(disk, cur.filename)
             /\ tabs' = [tabs EXCEPT ![active_tab_idx + 1] = SaveFile(cur, NoFile, TRUE)]
             /\ prompt' = NoPrompt
             /\ key' = "save"
    /\ UNCHANGED <<active_tab_idx, clipboard, paneVars, loop, steps, terminal, tick>>

\* The call save_file is about to make raises OSError.
SaveFails ==
    /\ loop = "running"
    /\ prompt \in SavePositions
    /\ tabs' = [tabs EXCEPT ![active_tab_idx + 1] = SaveFile(cur, NoFile, FALSE)]
    /\ prompt' = NoPrompt
    /\ key' = "save_failed"
    /\ UNCHANGED <<active_tab_idx, clipboard, paneVars, loop, steps, terminal, tick,
                   disk>>

\* The process is killed in the middle of save_file.
Crash ==
    /\ loop = "running"
    /\ prompt \in SavePositions
    /\ loop' = "crashed"
    /\ UNCHANGED <<tabs, active_tab_idx, clipboard, paneVars, key, steps, disk,
                   terminal, prompt, tick>>

(***************************************************************************)
(* An editing command in two steps: its call of save_history, and the rest *)
(* of the handler, which changes the buffer.  Between the two, prompt      *)
(* holds the command.  The rest is the handler run on the tab as recorded: *)
(* the record at its start finds the snapshot just taken and adds nothing. *)
(***************************************************************************)
EditCommands == {"char", "tab", "enter", "backspace", "cut", "paste",
                 "delete_line", "toggle_comment", "insert_text",
                 "delete_range", "replace_text"}

\* What command cmd can make of tab t and the clipboard, over its inputs;
\* none when the handler returns before it calls save_history.
EditOutcomes(t, clip, cmd) ==
    CASE cmd = "char" -> { Outcome(InsertChar(t, c), clip, FALSE) : c \in InputChars }
      [] cmd = "tab" -> { Outcome(InsertTab(t), clip, FALSE) }
      [] cmd = "enter" -> { Outcome(Enter(t), clip, FALSE) }
      [] cmd = "backspace" ->
           IF t.mark_pos # None \/ t.cursor_x > 0 \/ t.cursor_y > 0
           THEN { Backspace(t, clip) } ELSE {}
      [] cmd = "cut" -> { PerformCut(t, clip) }
      [] cmd = "paste" ->
           IF clip # <<>> THEN { Outcome(PerformPaste(t, clip), clip, FALSE) } ELSE {}
      [] cmd = "delete_line" -> { Outcome(DeleteLine(t), clip, FALSE) }
      [] cmd = "toggle_comment" -> { Outcome(ToggleComment(t), clip, FALSE) }
      [] cmd = "insert_text" ->
           { Outcome(InsertText(t, text), clip, FALSE) : text \in PluginTexts }
      [] cmd = "delete_range" ->
           { Outcome(DeleteRange(t, p, q), clip, FALSE) :
               p \in { r \in RangePositions : r[1] < Len(t.lines) },
               q \in { r \in RangePositions : r[1] < Len(t.lines) } }
      [] cmd = "replace_text" ->
           { Outcome(ReplaceText(t, y, sx, ex, text), clip, FALSE) :
               y \in { r \in RangeYs : r < Len(t.lines) },
               sx \in RangeXs, ex \in RangeXs, text \in PluginTexts }

EditRecord ==
    /\ CanHandle("editor")
    /\ \E cmd \in EditCommands :
         /\ \E o \in EditOutcomes(cur, clipboard, cmd) : Fits(o.tab.lines)
         /\ prompt' = cmd
    /\ tabs' = [tabs EXCEPT ![active_tab_idx + 1] = SaveHistory(cur, FALSE)]
    /\ key' = "record"
    /\ steps' = steps - 1
    /\ terminal' = Polled
    /\ tick' = 1 - tick
    /\ UNCHANGED <<active_tab_idx, clipboard, paneVars, loop, disk>>

EditMutate ==
    /\ loop = "running"
    /\ prompt \in EditCommands
    /\ \E o \in EditOutcomes(cur, clipboard, prompt) :
         /\ Fits(o.tab.lines)
         /\ tabs' = [tabs EXCEPT ![active_tab_idx + 1] = o.tab]
         /\ clipboard' = o.clipboard
         /\ loop' = IF o.raised THEN "crashed" ELSE loop
    /\ key' = prompt
    /\ prompt' = NoPrompt
    /\ UNCHANGED <<active_tab_idx, paneVars, steps, disk, terminal, tick>>

(***************************************************************************)
(* Initial state: Editor.__init__ with a file name (the file's lines) or   *)
(* without (an empty buffer, then the interactive start screen).           *)
(***************************************************************************)
InitWith(t, pane) ==
    /\ tabs = << t >>
    /\ active_tab_idx = 0
    /\ clipboard = <<>>
    /\ active_pane = pane
    /\ show_explorer = TRUE
    /\ show_terminal = TRUE
    /\ loop = "running"
    /\ key = "none"
    /\ disk = NoDisk
    /\ prompt = NoPrompt
    /\ tick = 0

Started ==
    \/ \E f \in FileNames, lines \in FileContents :
         InitWith(SaveHistory(EditorTab(Buffer(lines), f), TRUE), "editor")
    \/ \E choice \in StartChoices \ {"settings_missing"}, new_lines \in FileContents :
         LET s == StartScreen(SaveHistory(EditorTab(Buffer(<<>>), NoFile), TRUE),
                              "editor", choice, new_lines)
         IN InitWith(s.tab, s.pane)

\* The platform has ptys; the shell stays quiet.
Init == Started /\ steps = MaxSteps /\ terminal = Terminal(TRUE)

\* The main loop handles one key event per step, whatever pane has the focus.
Next ==
    \/ KeyChar
    \/ KeyTab
    \/ KeyEnter
    \/ KeyBackspace
    \/ KeyCopy
    \/ KeyCut
    \/ KeyPaste
    \/ KeyDeleteLine
    \/ KeyToggleComment
    \/ KeyUndo
    \/ KeyRedo
    \/ KeySave
    \/ KeyMark
    \/ KeySelectAll
    \/ KeyArrow
    \/ KeyGoto
    \/ KeySearch
    \/ PluginInsertText
    \/ PluginDeleteRange
    \/ PluginReplaceText
    \/ PluginMoveCursorTo
    \/ PluginRaises
    \/ KeyNewTab
    \/ KeyNextTab
    \/ KeyCloseTab
    \/ KeyToggleExplorer
    \/ KeyToggleTerminal
    \/ ExplorerOpen
    \/ FullExplorerOpen
    \/ PaneEsc
    \/ KeyTerminalInput

Spec == Init /\ [][Next]_vars

\* The keys that record, restore or reset history, to a greater depth.
InitHistory == Started /\ steps = MaxHistorySteps /\ terminal = Terminal(TRUE)

NextHistory ==
    \/ KeyChar
    \/ KeyBackspace
    \/ KeyCut
    \/ KeyUndo
    \/ KeyRedo
    \/ KeySave

SpecHistory == InitHistory /\ [][NextHistory]_vars

\* Saving and loading: buffers built by typing, saved, and read back through
\* the explorer.
InitFile == Started /\ steps = MaxFileSteps /\ terminal = Terminal(TRUE)

NextFile ==
    \/ KeyChar
    \/ KeyEnter
    \/ KeySave
    \/ KeyToggleExplorer
    \/ ExplorerOpen

SpecFile == InitFile /\ [][NextFile]_vars

\* The editor started on a file.
StartedOnFile ==
    \E f \in FileNames, lines \in FileContents :
        InitWith(SaveHistory(EditorTab(Buffer(lines), f), TRUE), "editor")

\* The terminal: the main loop with its timed wait and the keys of the
\* terminal pane, the child shell writing and exiting on its own, on a
\* platform with or without ptys.  The timed wait expires by itself, so the
\* loop goes on iterating when no key arrives.
InitTerminal ==
    /\ StartedOnFile
    /\ steps = MaxTerminalSteps
    /\ \E has_pty \in BOOLEAN : terminal = Terminal(has_pty)

NextTerminal ==
    \/ Idle
    \/ ChildOutput
    \/ ChildExit
    \/ KeyTerminalInput
    \/ KeyToggleTerminal
    \/ PaneEsc

SpecTerminal == InitTerminal /\ [][NextTerminal]_vars /\ WF_vars(Idle)

\* The prompts: the main loop with its timed wait and the handlers that ask
\* the user something.
InitPrompt == Started /\ steps = MaxPromptSteps /\ terminal = Terminal(TRUE)

NextPrompt ==
    \/ Idle
    \/ ChildExit
    \/ KeyChar
    \/ PromptOpen
    \/ PromptAnswer

SpecPrompt == InitPrompt /\ [][NextPrompt]_vars /\ WF_vars(Idle)

\* Saving, call by call.
InitSave == Started /\ steps = MaxSaveSteps /\ terminal = Terminal(TRUE)

NextSave ==
    \/ KeyChar
    \/ KeyEnter
    \/ SaveBegin
    \/ SaveStep
    \/ SaveFails
    \/ Crash

SpecSave == InitSave /\ [][NextSave]_vars

\* Scrolling: the editor started on a file with the terminal pane hidden
\* ("show_terminal_default": false), so that the edit area is lower than a
\* buffer of three lines, and the keys that move the cursor.
InitScroll ==
    /\ \E f \in FileNames, lines \in FileContents :
         tabs = << SaveHistory(EditorTab(Buffer(lines), f), TRUE) >>
    /\ active_tab_idx = 0
    /\ clipboard = <<>>
    /\ active_pane = "editor"
    /\ show_explorer = TRUE
    /\ show_terminal = FALSE
    /\ loop = "running"
    /\ key = "none"
    /\ steps = MaxScrollSteps
    /\ disk = NoDisk
    /\ terminal = Terminal(TRUE)
    /\ prompt = NoPrompt
    /\ tick = 0

NextScroll ==
    \/ KeyChar
    \/ KeyEnter
    \/ KeyBackspace
    \/ KeyDeleteLine
    \/ KeyArrow
    \/ KeyGoto
    \/ KeySearch
    \/ KeySelectAll
    \/ KeyUndo
    \/ KeyRedo
    \/ KeyToggleExplorer
    \/ ExplorerOpen

SpecScroll == InitScroll /\ [][NextScroll]_vars

\* Wide characters: the editor started on a file that holds characters of
\* every width, and the keys that move the cursor along its lines.
InitWide ==
    \E f \in FileNames, lines \in WideFileContents :
        /\ InitWith(SaveHistory(EditorTab(Buffer(lines), f), TRUE), "editor")
        /\ steps = MaxWideSteps
        /\ terminal = Terminal(TRUE)

NextWide ==
    \/ KeyArrow
    \/ KeyMark
    \/ KeyGoto
    \/ KeyToggleExplorer
    \/ PaneEsc

SpecWide == InitWide /\ [][NextWide]_vars

\* Searching: the cursor is moved about a buffer, a mark is left where it
\* was, and a query is searched.
InitSearch == Started /\ steps = MaxSearchSteps /\ terminal = Terminal(TRUE)

NextSearch ==
    \/ KeyChar
    \/ KeyEnter
    \/ KeyArrow
    \/ KeyMark
    \/ KeySearch

SpecSearch == InitSearch /\ [][NextSearch]_vars

\* Recording: the editing commands step by step, with undo, redo and save
\* between them.
InitRecord == StartedOnFile /\ steps = MaxRecordSteps /\ terminal = Terminal(TRUE)

NextRecord ==
    \/ EditRecord
    \/ EditMutate
    \/ KeyUndo
    \/ KeyRedo
    \/ KeySave
    \/ KeyMark

SpecRecord == InitRecord /\ [][NextRecord]_vars

\* Tabs: tabs are opened, changed, switched and closed.
NextTabs ==
    \/ KeyNewTab
    \/ KeyNextTab
    \/ KeyCloseTab
    \/ KeyChar
    \/ PaneEsc

SpecTabs == InitSearch /\ [][NextTabs]_vars

\* The clipboard: text is typed, a mark is set, the cursor moved, and the
\* selection copied, cut and pasted.
NextClip ==
    \/ KeyChar
    \/ KeyEnter
    \/ KeyArrow
    \/ KeyMark
    \/ KeyCopy
    \/ KeyCut
    \/ KeyPaste
    \/ KeyBackspace

SpecClip == InitSearch /\ [][NextClip]_vars

(***************************************************************************)
(* Properties                                                              *)
(***************************************************************************)
TabIds == 1..Len(tabs)

\* The keys whose handler changes the buffer content.
EditKeys == {"char", "tab", "enter", "backspace", "cut", "paste", "delete_line",
             "toggle_comment", "insert_text", "delete_range", "replace_text"}

\* The keys whose handler records a snapshot whenever it runs.
RecordingKeys == {"char", "tab", "enter", "cut", "delete_line", "toggle_comment",
                  "insert_text"}

\* The tab left by each single editing command run on tab t.
EditResults(t, clip) ==
    { InsertChar(t, c) : c \in InputChars }
    \cup { InsertTab(t), Enter(t), DeleteLine(t), ToggleComment(t),
           PerformPaste(t, clip) }
    \cup { o.tab : o \in { x \in {Backspace(t, clip), PerformCut(t, clip)} : ~x.raised } }
    \cup { InsertText(t, text) : text \in PluginTexts }
    \cup { DeleteRange(t, p, q) : p \in RangePositions, q \in RangePositions }
    \cup { ReplaceText(t, y, sx, ex, text) :
             y \in RangeYs, sx \in RangeXs, ex \in RangeXs, text \in PluginTexts }

\* C1: from every reachable state, undo right after a single command that
\* changed the buffer gives back the buffer content of before the command.
C1_UndoRestoresPreCommandContent ==
    loop = "running" =>
        \A t2 \in EditResults(cur, clipboard) :
            t2.lines # cur.lines =>
                ~UndoRaises(t2) /\ Undo(t2).lines = cur.lines

\* C2: in every reachable state where undo is possible, undo followed by
\* redo gives back the buffer content and the cursor position of the state.
C2_RedoAfterUndoIsIdentity ==
    loop = "running" =>
        \A i \in TabIds :
            LET x == tabs[i]
                r == Redo(Undo(x))
            IN x.history_index > 0 =>
                 /\ r.lines = x.lines
                 /\ r.cursor_y = x.cursor_y
                 /\ r.cursor_x = x.cursor_x

\* C3: a stored snapshot never changes: after an editing key every history
\* entry of the tab is an entry the history held before, unchanged, or the
\* snapshot that this key recorded.
C3_SnapshotsNeverChange ==
    [][ (key' \in EditKeys /\ Len(tabs') = Len(tabs)) =>
          LET h == cur.history
              h2 == tabs'[active_tab_idx + 1].history
          IN \A i \in 1..Len(h2) :
                \/ \E j \in 1..Len(h) : h2[i] = h[j]
                \/ h2[i] = Snapshot(cur) ]_vars

\* C4: the buffer of every tab holds at least one line.
C4_BufferHoldsALine == \A i \in TabIds : Len(tabs[i].lines) >= 1

\* C5: no line of any buffer contains a line-break character.
C5_NoLineBreakInLine ==
    \A i \in TabIds :
        \A y \in 1..Len(tabs[i].lines) :
            \A x \in 1..Len(tabs[i].lines[y]) : tabs[i].lines[y][x] # NL

\* C6: in every tab the cursor is on a line of the buffer and at a column
\* of that line (the column after the last character included).
C6_CursorInBounds ==
    \A i \in TabIds :
        /\ 0 <= tabs[i].cursor_y
        /\ tabs[i].cursor_y < Len(tabs[i].lines)
        /\ 0 <= tabs[i].cursor_x
        /\ tabs[i].cursor_x <= Len(tabs[i].lines[tabs[i].cursor_y + 1])

\* C7: a mark that is set is a position of the buffer.
C7_MarkInBounds ==
    \A i \in TabIds :
        tabs[i].mark_pos # None =>
            /\ 0 <= tabs[i].mark_pos[1]
            /\ tabs[i].mark_pos[1] < Len(tabs[i].lines)
            /\ 0 <= tabs[i].mark_pos[2]
            /\ tabs[i].mark_pos[2] <= Len(tabs[i].lines[tabs[i].mark_pos[1] + 1])

\* C8: no key event ends the main loop through an exception; the loop has
\* ended only when no tab is left.
C8_LoopEndsOnlyByLastClose ==
    /\ loop # "crashed"
    /\ loop = "exited" <=> tabs = <<>>

\* C9: whenever the history of a tab is not empty, history_index is the
\* index of one of its entries.
C9_HistoryIndexInRange ==
    \A i \in TabIds :
        tabs[i].history # <<>> =>
            /\ 0 <= tabs[i].history_index
            /\ tabs[i].history_index < Len(tabs[i].history)

C9_Witness ==
    /\ loop = "running"
    /\ key = "undo"
    /\ Len(cur.history) = HistoryLimit
    /\ cur.history_index = 0
    /\ cur.history[1].x > 0

\* C10: no history holds more than HistoryLimit entries; a record that
\* appends to a full history leaves HistoryLimit entries, the oldest entry
\* gone, the others moved down by one, the new snapshot last, and
\* history_index on that last entry.  (An entry that shares its list with
\* the buffer follows the buffer content, see C3.)
C10_HistoryCap ==
    /\ \A i \in TabIds : Len(tabs[i].history) <= HistoryLimit
    /\ [][ /\ \A i \in 1..Len(tabs') : Len(tabs'[i].history) <= HistoryLimit
           /\ ( /\ key' \in RecordingKeys
                /\ steps' # steps
                /\ Len(cur.history) = HistoryLimit
                /\ cur.history_index = HistoryLimit - 1
                /\ cur.lines # cur.history[HistoryLimit].content )
              => LET h == cur.history
                     t2 == tabs'[active_tab_idx + 1]
                     h2 == t2.history
                 IN /\ Len(h2) = HistoryLimit
                    /\ t2.history_index = HistoryLimit - 1
                    /\ h2[HistoryLimit] = Snapshot(cur)
                    /\ \A i \in 1..(HistoryLimit - 1) :
                         /\ h2[i].y = h[i + 1].y
                         /\ h2[i].x = h[i + 1].x
                         /\ h2[i].content = h[i + 1].content \/ cur.alias = i + 1
         ]_vars

C10_Witness ==
    /\ loop = "running"
    /\ key = "char"
    /\ Len(cur.history) = HistoryLimit
    /\ cur.history_index = HistoryLimit - 1
    /\ cur.history[1].x > 0

\* C11: a record made while history_index is before the last entry discards
\* every entry after history_index: the history keeps the entries up to
\* history_index (the entry that shares its list with the buffer follows the
\* buffer, see C3), followed at most by the snapshot just recorded;
\* history_index is then on the last entry and redo changes nothing.
C11_RecordDiscardsRedoEntries ==
    [][ ( /\ key' \in RecordingKeys
          /\ steps' # steps
          /\ cur.history_index < Len(cur.history) - 1 )
        => LET h == cur.history
               n == cur.history_index + 1
               t2 == tabs'[active_tab_idx + 1]
               h2 == t2.history
           IN /\ Len(h2) = n \/ (Len(h2) = n + 1 /\ h2[n + 1] = Snapshot(cur))
              /\ \A i \in 1..n :
                    /\ h2[i].y = h[i].y
                    /\ h2[i].x = h[i].x
                    /\ h2[i].content = h[i].content \/ cur.alias = i
              /\ t2.history_index = Len(h2) - 1
              /\ ~RedoRaises(t2)
              /\ Redo(t2) = t2
      ]_vars

\* A character typed after an undo: the buffer still shares its list with
\* entry 1, the only entry left.
C11_Witness ==
    /\ loop = "running"
    /\ key = "char"
    /\ cur.alias = 1
    /\ Len(cur.history) = 1
    /\ cur.history_index = 0
    /\ cur.lines # << <<>> >>

\* C12: no two consecutive entries of a history hold equal content.
C12_NoConsecutiveDuplicates ==
    \A i \in TabIds :
        \A j \in 1..(Len(tabs[i].history) - 1) :
            tabs[i].history[j].content # tabs[i].history[j + 1].content

\* C13: a successful save leaves a history of exactly one snapshot, the
\* saved content, with history_index 0, and an undo right after it changes
\* nothing.
C13_SaveResetsHistory ==
    [][ \A fn \in FileNames :
          ( /\ key' = "save"
            /\ steps' # steps
            /\ cur.filename \in {NoFile, fn}
            /\ tabs'[active_tab_idx + 1] = SaveFile(cur, fn, TRUE) )
          => LET t2 == tabs'[active_tab_idx + 1]
             IN /\ Len(t2.history) = 1
                /\ t2.history[1].content = cur.lines
                /\ t2.history_index = 0
                /\ ~UndoRaises(t2)
                /\ Undo(t2) = t2
      ]_vars

\* C14: reading a file back gives the lines that were saved: when the
\* explorer opens the file of the focused tab while the file holds the text
\* of the buffer as save_file wrote it, the buffer keeps its lines.
C14_SaveLoadRoundTrip ==
    [][ ( /\ key' = "explorer_open"
          /\ steps' # steps
          /\ cur.filename # NoFile
          /\ tabs'[active_tab_idx + 1].filename = cur.filename
          /\ disk[cur.filename].written
          /\ disk[cur.filename].text = FileText(cur.lines) )
        => tabs'[active_tab_idx + 1].lines = cur.lines
      ]_vars

\* C15: once a read on the master has met the end of file, the terminal is
\* closed for input: no later step writes to the master.
C15_NoWriteAfterEof ==
    [][ terminal.eof => terminal'.pty_in = terminal.pty_in ]_vars

\* C16: when the main loop has returned, the master descriptor is closed and
\* the child shell, if there was one, has been reaped.
C16_ChildReapedOnExit ==
    loop = "exited" =>
        /\ terminal.master_fd = "None"
        /\ terminal.child \in {"none", "reaped"}

\* C17: while the main loop keeps iterating, output the child shell has
\* written is eventually read from the pty and appended to the scrollback.
C17_OutputReachesScrollback ==
    (terminal.pty_out # <<>>) ~> (terminal.pty_out = <<>> \/ loop # "running")

\* C18: wherever the main loop is, it goes on to its next poll and redraw
\* without a key: the expiry of the timed wait is possible in every state in
\* which the loop runs.
C18_LoopNeverBlocks == loop = "running" => ENABLED Idle

\* C19: the scrollback never holds more than BufferLimit lines, and a read
\* leaves the newest lines, in order, of the scrollback extended by the text
\* that was read.
C19_ScrollbackCap ==
    /\ Len(terminal.lines) <= BufferLimit
    /\ [][ /\ Len(terminal'.lines) <= BufferLimit
           /\ terminal'.pty_out # terminal.pty_out /\ terminal'.produced = terminal.produced
              => LET data == SubSeq(terminal.pty_out, 1,
                                    Len(terminal.pty_out) - Len(terminal'.pty_out))
                     all == Scrolled(terminal.lines, StripAnsi(data))
                     kept == terminal'.lines
                 IN /\ Len(kept) = Min(Len(all), BufferLimit)
                    /\ \A i \in 1..Len(kept) :
                          kept[i] = all[Len(all) - Len(kept) + i]
         ]_vars

\* A read has cut the scrollback, and the lines kept are not all equal.
C19_Witness ==
    /\ terminal.dropped
    /\ Len(terminal.lines) = BufferLimit
    /\ terminal.lines[1] # terminal.lines[BufferLimit]

\* C20: a key event changes no tab but the focused one: tabs that are not
\* focused when the key arrives are the same after it.
C20_OnlyFocusedTabChanges ==
    [][ (steps' # steps /\ Len(tabs') = Len(tabs)) =>
          \A i \in TabIds : i # active_tab_idx + 1 => tabs'[i] = tabs[i]
      ]_vars

\* C21: a search with a valid pattern goes to the first match in the cyclic
\* order that starts right after the cursor: the rest of the cursor line,
\* the lines below it, the lines from the top, and last the cursor line up to
\* and including the cursor column.  Only when the buffer holds no match at
\* all does the cursor stay where it is.
C21_SearchOrder ==
    [][ \A c \in SearchChars :
          ( /\ key' = "search"
            /\ steps' # steps
            /\ tabs'[active_tab_idx + 1] = SearchText(cur, c) )
          => LET y == cur.cursor_y
                 x == cur.cursor_x
                 n == Len(cur.lines)
                 t2 == tabs'[active_tab_idx + 1]
                 found == <<t2.cursor_y, t2.cursor_x>>
                 matches == { q \in (0..(n - 1)) \X (0..MaxLen) :
                                /\ q[2] < Len(cur.lines[q[1] + 1])
                                /\ cur.lines[q[1] + 1][q[2] + 1] = c }
                 rank(q) == IF q[1] = y
                            THEN (IF q[2] > x THEN 0 ELSE n)
                            ELSE (q[1] - y) % n
                 before(q, r) == \/ rank(q) < rank(r)
                                 \/ rank(q) = rank(r) /\ q[2] < r[2]
             IN IF matches = {}
                THEN found = <<y, x>>
                ELSE /\ found \in matches
                     /\ \A q \in matches : ~before(q, found)
      ]_vars

\* A search from the second line, where the mark was left, has wrapped to a
\* match on the first line.
C21_Witness ==
    /\ loop = "running"
    /\ key = "search"
    /\ cur.mark_pos = <<1, 0>>
    /\ cur.cursor_y = 0
    /\ cur.cursor_x = 1
    /\ cur.lines[1][2] = "#"

\* C22: a search that reports a match leaves the cursor at a position other
\* than the one the search started at.
C22_MatchIsNotStart ==
    [][ \A c \in SearchChars :
          ( /\ key' = "search"
            /\ steps' # steps
            /\ SearchMatch(cur, c) # None
            /\ tabs'[active_tab_idx + 1] = SearchText(cur, c) )
          => <<tabs'[active_tab_idx + 1].cursor_y, tabs'[active_tab_idx + 1].cursor_x>>
                # <<cur.cursor_y, cur.cursor_x>>
      ]_vars

\* C23: a query that is no valid pattern, a goto input that is no number and
\* an empty answer to the filename prompt end the operation with a status
\* message only: the loop runs on and the tab is what it was.
C23_InputErrorsLeaveState ==
    [][ ( /\ steps' # steps
          /\ \/ key' \in {"search_invalid", "goto_invalid"}
             \/ /\ key' = "save"
                /\ cur.filename = NoFile
                /\ loop' = "running" => tabs'[active_tab_idx + 1].filename = NoFile )
        => /\ loop' = "running"
           /\ tabs' = tabs
      ]_vars

\* C24: when a call of save_file fails with an OS error, the tab keeps its
\* modified flag, its buffer content and its history.
C24_SaveFailureKeepsTab ==
    [][ key' = "save_failed" /\ key # "save_failed" =>
          LET t2 == tabs'[active_tab_idx + 1]
          IN /\ loop' = "running"
             /\ t2.modified = cur.modified
             /\ t2.lines = cur.lines
             /\ t2.history = cur.history
             /\ t2.history_index = cur.history_index
      ]_vars

\* A save of a modified buffer has failed after part of the text was
\* written.
C24_Witness ==
    /\ loop = "running"
    /\ key = "save_failed"
    /\ cur.modified
    /\ disk[TmpName(cur.filename)].written
    /\ disk[TmpName(cur.filename)].text # <<>>
    /\ disk[TmpName(cur.filename)].text # FileText(cur.lines)

\* C25: no step changes a file the editor saves to other than by giving it
\* the complete text of the buffer being saved: at every point of
\* save_file, and after a kill at that point, the file holds what it held
\* before or the whole new text.
C25_SaveIsAtomic ==
    [][ \A f \in FileNames \cup {SettingsFile} :
          \/ disk'[f] = disk[f]
          \/ disk'[f] = [written |-> TRUE, text |-> FileText(cur.lines)]
      ]_vars

\* The process was killed while the second save of a file was writing: the
\* temporary file holds a part of the new text, the file the first save.
C25_Witness ==
    /\ loop = "crashed"
    /\ prompt = "save_write"
    /\ cur.filename \in FileNames
    /\ disk[cur.filename].written
    /\ disk[cur.filename].text # FileText(cur.lines)
    /\ disk[TmpName(cur.filename)].text # <<>>
    /\ disk[TmpName(cur.filename)].text # FileText(cur.lines)

\* C26: a plugin callback that raises does not end the main loop: after the
\* key that ran it the loop is still running.
C26_PluginErrorIsCaught ==
    [][ key' = "plugin_raises" /\ steps' # steps => loop' = "running" ]_vars

\* C27: after a key that moves the cursor the cursor line is one of the
\* lines on screen: scroll_offset <= cursor_y < scroll_offset + edit height.
C27_CursorLineVisible ==
    [][ ( /\ steps' # steps
          /\ loop' = "running"
          /\ key' \in {"up", "down", "left", "right", "ppage", "npage", "end",
                       "char", "enter", "backspace", "delete_line", "search",
                       "goto", "select_all", "undo", "redo", "explorer_open"} )
        => LET t2 == tabs'[active_tab_idx' + 1]
           IN /\ t2.scroll_offset <= t2.cursor_y
              /\ t2.cursor_y < t2.scroll_offset + EditHeight'
      ]_vars

\* C28: after a key that moves the cursor, the screen column of the cursor,
\* the sum of the widths of the characters between col_offset and cursor_x,
\* lies in the visible text width, the edit width less the line numbers.
C28_CursorColumnVisible ==
    [][ ( /\ steps' # steps
          /\ loop' = "running"
          /\ key' \in {"up", "down", "left", "right", "ppage", "npage", "end",
                       "goto"} )
        => LET t2 == tabs'[active_tab_idx' + 1]
               linenum_width == Max(4, Digits(Len(t2.lines))) + 1
               actual_edit_w == EditRectW' - linenum_width
           IN /\ t2.col_offset <= t2.cursor_x
              /\ ScreenX(t2) < actual_edit_w
      ]_vars

\* C29: the screen column of the cursor is the number of characters between
\* col_offset and cursor_x, the wide and the fullwidth ones counted twice
\* and every other one once.
C29_ScreenColumnMapping ==
    (loop = "running" /\ cur.col_offset <= cur.cursor_x) =>
        LET line == cur.lines[cur.cursor_y + 1]
            twice == { i \in (cur.col_offset + 1)..cur.cursor_x :
                         EastAsianWidth(line[i]) \in {"W", "F"} }
        IN ScreenX(cur) = (cur.cursor_x - cur.col_offset) + Cardinality(twice)

\* C30: is_in_selection holds of exactly the positions from the smaller of
\* mark and cursor up to, not including, the greater of the two, in the
\* order of (line, column) pairs; it holds of no position without a mark.
C30_SelectionMembership ==
    loop = "running" =>
        \A y \in 0..MaxLines, x \in (-1)..(MaxLen + 1) :
            LET p == <<y, x>>
                c == <<cur.cursor_y, cur.cursor_x>>
                m == cur.mark_pos
                lo == IF PosGreater(m, c) THEN c ELSE m
                hi == IF PosGreater(m, c) THEN m ELSE c
            IN IsInSelection(cur, y, x)
                 <=> ( /\ m # None
                       /\ ~PosGreater(lo, p)
                       /\ PosGreater(hi, p) )

\* The mark is on the second line and the cursor before it on the first:
\* the cursor position is selected, the mark position is not.
C30_Witness ==
    /\ loop = "running"
    /\ cur.mark_pos = <<1, 0>>
    /\ cur.cursor_y = 0
    /\ cur.cursor_x = 1
    /\ IsInSelection(cur, 0, 1)
    /\ IsInSelection(cur, 0, MaxLen + 1)
    /\ ~IsInSelection(cur, 1, 0)
    /\ ~IsInSelection(cur, 0, 0)

\* C31: when the cursor was put at (y, x) by a horizontal move and Down
\* takes it to line y + 1, of whatever length, Up brings it back to (y, x).
C31_DownUpRestoresColumn ==
    [][ ( /\ key \in {"left", "right", "end"}
          /\ key' = "down"
          /\ steps' # steps
          /\ cur.cursor_y + 1 < Len(cur.lines) )
        => LET down == tabs'[active_tab_idx' + 1]
               up == Arrow(down, "up")
           IN /\ down.cursor_y = cur.cursor_y + 1
              /\ up.cursor_y = cur.cursor_y
              /\ up.cursor_x = cur.cursor_x
      ]_vars

\* Down has taken the cursor from column 2 to a line of one character.
C31_Witness ==
    /\ loop = "running"
    /\ key = "down"
    /\ cur.cursor_y = 1
    /\ cur.cursor_x = 1
    /\ cur.desired_x = 2
    /\ Len(cur.lines[1]) = 2
    /\ Arrow(cur, "up").cursor_x = 2

\* C32: when copy or cut (Backspace on a selection is a cut) has returned,
\* the tab has no mark.
C32_CopyAndCutClearMark ==
    [][ ( /\ steps' # steps
          /\ loop' = "running"
          /\ \/ key' \in {"copy", "cut"}
             \/ key' = "backspace" /\ cur.mark_pos # None )
        => tabs'[active_tab_idx' + 1].mark_pos = None
      ]_vars

\* A selection of an unchanged buffer was copied.
C32_Witness ==
    /\ loop = "running"
    /\ key = "copy"
    /\ ~cur.modified
    /\ cur.lines = << <<" ", "#">>, <<"b">> >>
    /\ clipboard = << <<"#">>, <<"b">> >>
    /\ cur.mark_pos = None

\* C33: when an editing command has called save_history and has not yet
\* changed the buffer, history_index is the index of the last history entry
\* and the content of that entry is the content of the buffer.
C33_RecordBeforeWrite ==
    (loop = "running" /\ prompt \in EditCommands) =>
        /\ cur.history # <<>>
        /\ cur.history_index = Len(cur.history) - 1
        /\ cur.history[Len(cur.history)].content = cur.lines

\* A command has recorded into a full history: the oldest entry is gone and
\* the last entry is the buffer the command is about to change.
C33_Witness ==
    /\ loop = "running"
    /\ prompt = "char"
    /\ Len(cur.history) = HistoryLimit
    /\ cur.history[1].content = << <<"a">> >>
    /\ cur.history[HistoryLimit].content = << <<"a", "a">> >>
    /\ cur.lines = << <<"a", "a">> >>
    /\ cur.history_index = HistoryLimit - 1

\* C34: when a file has been opened into a tab, from the explorer or from
\* the start screen, the history of the tab is one snapshot, the loaded
\* content with the cursor at the start, and history_index is 0.
C34_OpenResetsHistory ==
    [][ ( /\ steps' # steps
          /\ loop' = "running"
          /\ \/ key' = "explorer_open"
             \/ /\ key' = "new_tab"
                /\ tabs'[active_tab_idx' + 1].filename = SettingsFile )
        => LET t2 == tabs'[active_tab_idx' + 1]
           IN /\ t2.history = << [content |-> t2.lines, y |-> 0, x |-> 0] >>
              /\ t2.history_index = 0
      ]_vars

\* C35: Up, Down, Page-Up and Page-Down leave desired_x as it was and put
\* the cursor at column min(desired_x, length of the line it lands on).
C35_VerticalMovesKeepDesiredColumn ==
    [][ ( /\ steps' # steps
          /\ key' \in {"up", "down", "ppage", "npage"} )
        => LET t2 == tabs'[active_tab_idx' + 1]
           IN /\ t2.desired_x = cur.desired_x
              /\ t2.cursor_x = Min(cur.desired_x, Len(t2.lines[t2.cursor_y + 1]))
      ]_vars

\* C36: after an edit that has changed the cursor column, desired_x is the
\* new cursor column.
C36_EditsRefreshDesiredColumn ==
    [][ ( /\ steps' # steps
          /\ loop' = "running"
          /\ key' \in {"char", "tab", "enter", "backspace", "paste", "cut",
                       "delete_line", "insert_text"}
          /\ tabs'[active_tab_idx' + 1].cursor_x # cur.cursor_x )
        => tabs'[active_tab_idx' + 1].desired_x = tabs'[active_tab_idx' + 1].cursor_x
      ]_vars

\* C37: the scrollback does not depend on how the output is divided into
\* reads: reading the pending output of the child at once, or the piece
\* before any point of it and then the rest, leaves the same lines.
C37_ReadsAreChunkIndependent ==
    terminal.master_fd # "None" =>
        LET data == PyTo(terminal.pty_out, ReadSize)
            Read(term, chunk) == ReadOutput([term EXCEPT !.pty_out = chunk])
        IN \A k \in 1..(Len(data) - 1) :
              Read(Read(terminal, PyTo(data, k)), PyFrom(data, k)).lines
                = Read(terminal, data).lines

\* C38: a tab that is not modified holds the text its file holds: the text
\* save_file wrote last, else the text the file had when it was loaded; a
\* tab without a file holds the empty text of a new buffer.
C38_UnmodifiedMeansSaved ==
    loop = "running" =>
        \A i \in TabIds :
            LET t == tabs[i]
                on_disk ==
                    IF t.filename = NoFile THEN { <<>> }
                    ELSE IF disk[t.filename].written THEN { disk[t.filename].text }
                    ELSE { FileText(Buffer(c)) : c \in FileContents }
            IN ~t.modified => FileText(t.lines) \in on_disk

\* C39: when the tab is closed with the answer y and save_file has asked
\* for a file name, the tab is removed only if its text was written to a
\* file; an aborted or failed save leaves the tab open.
C39_CloseKeepsUnsavedTab ==
    [][ ( /\ prompt = "close_filename"
          /\ prompt' = NoPrompt
          /\ Len(tabs') < Len(tabs) )
        => \E f \in FileNames :
              disk'[f] = [written |-> TRUE, text |-> FileText(cur.lines)]
      ]_vars

\* C40: while the main loop runs there is a tab and active_tab_idx is the
\* index of a tab; the close of the only tab ends the loop.
C40_ActiveTabExists ==
    /\ [](loop = "running" =>
            /\ tabs # <<>>
            /\ 0 <= active_tab_idx
            /\ active_tab_idx < Len(tabs))
    /\ [][ (Len(tabs) = 1 /\ tabs' = <<>>) => loop' = "exited" ]_vars

\* The second of two tabs was closed while it had the focus: the focus is
\* on the tab that is left, the one the editor started with.
C40_Witness ==
    /\ loop = "running"
    /\ key = "close_tab"
    /\ Len(tabs) = 1
    /\ active_tab_idx = 0
    /\ tabs[1].filename = "f"

====
